---- MODULE Spec2Model ----
(***************************************************************************)
(* The room synchronisation engine of the chat client.                     *)
(*                                                                         *)
(*   Chat        (src/unnamed/part_001, lines 15-277): initializeChat,      *)
(*               the postgres_changes handler, sendMessage, deleteMessage. *)
(*   ChatInput   (src/src/components/ChatInput.tsx, lines 22-383):         *)
(*               handleSubmit and the composition draft.                   *)
(*                                                                         *)
(* Every `await` of the source is a suspension point: the request is       *)
(* executed by the backing store in one step and the code after the await  *)
(* runs in a later step, unless that code touches only state nobody else   *)
(* reads before the next await.                                            *)
(***************************************************************************)
EXTENDS Integers, Sequences, FiniteSets, TLC

\* ------------------------------------------------------------------ bounds
\* Message ids the backing store can assign (ids are never reused).
MaxId == 2
\* Distinct created_at timestamps.
MaxTime == 2

\* Characters of the longest draft a transcription is added to.
MaxDraftLen == 3

\* The transport repeats an event only while the Store and the channel hold
\* fewer than this many entries and events together.
MaxFeed == 3

Ids == 1..MaxId
Times == 1..MaxTime

Sessions == {"s1", "s2"}
Users == {"alice", "bob"}
\* The name each session's user types into the form.
NameOf(s) == IF s = "s1" THEN "alice" ELSE "bob"

\* ------------------------------------------------------- program constants
DEFAULT_ROOM_NAME == "Public Chat Room"
DEFAULT_ROOM_SLUG == "public"

\* A room that some other application created in the same table.
OtherRoom == [id |-> 1, name |-> "Lobby", slug |-> "lobby"]
\* useState<ChatRoom | null>(null)
NoRoom == [id |-> 0, name |-> "", slug |-> ""]
\* attachmentInfo === undefined
NoAtt == [path |-> <<>>, type |-> ""]
\* useState<File | null>(null)
NoFile == [name |-> "", type |-> ""]
\* payload.new of a DELETE event
NoMsg == [id |-> 0, room_id |-> 0, sender_name |-> "", content |-> <<>>,
          created_at |-> 0, att |-> NoAtt]
\* A message of the other room, there before any session joins.
LobbyMsg == [id |-> 9, room_id |-> 1, sender_name |-> "bob", content |-> <<"a">>,
             created_at |-> 1, att |-> NoAtt]
NoArgs == [text |-> <<>>, file |-> NoFile, att |-> NoAtt]
NoFlow == [pc |-> "none", id |-> 0, data |-> <<>>]

\* ------------------------------------------------------------------- state
VARIABLES
    rooms,        \* table chat_rooms: a set of rows
    db,           \* table public_messages: a set of rows
    usedIds,      \* message ids the store has assigned so far
    uploads,      \* bucket chat_attachments: the stored paths
    username,     \* Chat: useState("")                       (per session)
    messages,     \* Chat: useState<PublicMessage[]>([])      (the Store)
    isLoading,    \* Chat: useState(true)
    defaultRoom,  \* Chat: useState<ChatRoom | null>(null), and the local `room`
    pc,           \* position of initializeChat
    snap,         \* initializeChat: messageData, between response and use
    mounted,      \* the Chat component is mounted
    channel,      \* the realtime channel: "none", "open" or "closed"
    feed,         \* events the channel has still to hand to the handler
    flows,        \* the deleteMessage invocation in flight (the model follows
                  \* one invocation at a time in each session)
    message,      \* ChatInput: useState("")  (the draft)
    attachment,   \* ChatInput: useState<File | null>(null)
    isSubmitting, \* ChatInput: useState(false)
    isUploading,  \* ChatInput: useState(false)
    spc,          \* position of handleSubmit
    sendArgs,     \* handleSubmit: the message, attachment and attachmentInfo
                  \* of the call in flight
    outcome,      \* history: how the last handleSubmit, transcription or
                  \* failed deleteMessage ended, until the draft is edited or
                  \* the next deleteMessage starts
    removed       \* history: ids whose deleteMessage ran to its end

storeVars == <<rooms, db, usedIds, uploads>>
chatVars  == <<username, messages, isLoading, defaultRoom, pc, snap, mounted,
               channel, feed, flows>>
inputVars == <<message, attachment, isSubmitting, isUploading, spc, sendArgs>>
histVars  == <<outcome, removed>>
vars      == <<storeVars, chatVars, inputVars, histVars>>

\* ----------------------------------------------------------------- helpers
\* Array.prototype.some(msg => msg.id === id)
HasId(seq, id) == \E i \in DOMAIN seq : seq[i].id = id

RECURSIVE SetMax(_)
SetMax(S) ==
    IF S = {} THEN 0
    ELSE LET x == CHOOSE y \in S : TRUE
             r == SetMax(S \ {x})
         IN IF x > r THEN x ELSE r

\* All orders in which the store may return the rows S for
\* .order('created_at', { ascending: true }): rows with equal created_at come
\* in an order the query does not fix.
RECURSIVE OrderByCreatedAt(_)
OrderByCreatedAt(S) ==
    IF S = {} THEN {<<>>}
    ELSE LET least == {m \in S : \A n \in S : m.created_at <= n.created_at}
         IN UNION {{<<m>> \o rest : rest \in OrderByCreatedAt(S \ {m})} : m \in least}

\* .from('public_messages').select('*').eq('room_id', roomId)
RoomMessages(roomId) == {m \in db : m.room_id = roomId}

\* .from('chat_rooms').select('*').eq('slug', slug)
RoomsBySlug(slug) == {r \in rooms : r.slug = slug}

\* A React state setter called after the component unmounted does nothing.
Set(f, s, v) == IF mounted[s] THEN [f EXCEPT ![s] = v] ELSE f

\* String.prototype.trim on a sequence of characters.
IsSpace(c) == c = " "

RECURSIVE TrimStart(_)
TrimStart(t) ==
    IF t = <<>> THEN <<>>
    ELSE IF IsSpace(Head(t)) THEN TrimStart(Tail(t)) ELSE t

RECURSIVE TrimEnd(_)
TrimEnd(t) ==
    IF t = <<>> THEN <<>>
    ELSE IF IsSpace(t[Len(t)]) THEN TrimEnd(SubSeq(t, 1, Len(t) - 1)) ELSE t

\* A trim that was forgotten.
TrimNone(t) == t

Trim(t) == TrimEnd(TrimStart(t))

\* The drafts a user types: empty, blank, plain, and padded with blanks.
Drafts == {<<>>, <<" ">>, <<"a">>, <<" ", "a", " ">>}
Files == {[name |-> "file.png", type |-> "image/png"]}

\* --------------------------------------------------------- the change feed
\* The realtime server hands a committed change of a row of room `roomId` to
\* every open channel whose filter is room_id=eq.<roomId>.
Publish(ev, roomId) ==
    [s \in Sessions |->
        IF channel[s] = "open" /\ defaultRoom[s].id = roomId
        THEN Append(feed[s], ev) ELSE feed[s]]

\* setMessages((prev) => [...prev, newMessage])
ApplyInsert(prev, newMessage) == Append(prev, newMessage)

\* A removal that stops at the first entry of the id (a splice at findIndex).
RECURSIVE RemoveFirst(_, _)
RemoveFirst(prev, id) ==
    IF prev = <<>> THEN <<>>
    ELSE IF Head(prev).id = id THEN Tail(prev)
    ELSE <<Head(prev)>> \o RemoveFirst(Tail(prev), id)

\* setMessages((prev) => prev.filter(msg => msg.id !== deletedMessageId))
RemoveById(prev, id) == SelectSeq(prev, LAMBDA msg : msg.id # id)

\* The postgres_changes handler.
ApplyEvent(prev, payload) ==
    IF payload.eventType = "INSERT" THEN ApplyInsert(prev, payload.new)
    ELSE IF payload.eventType = "DELETE" THEN RemoveById(prev, payload.old.id)
    ELSE prev

InsertEvent(m) == [eventType |-> "INSERT", new |-> m, old |-> [id |-> 0]]
DeleteEvent(m) == [eventType |-> "DELETE", new |-> NoMsg, old |-> [id |-> m.id]]

\* ------------------------------------------------------------------- Init
\* No client has joined yet: the default room does not exist.
Init ==
    /\ rooms = {OtherRoom}
    /\ db = {LobbyMsg}
    /\ usedIds = {LobbyMsg.id}
    /\ uploads = {}
    /\ username = [s \in Sessions |-> ""]
    /\ messages = [s \in Sessions |-> <<>>]
    /\ isLoading = [s \in Sessions |-> TRUE]
    /\ defaultRoom = [s \in Sessions |-> NoRoom]
    /\ pc = [s \in Sessions |-> "idle"]
    /\ snap = [s \in Sessions |-> <<>>]
    /\ mounted = [s \in Sessions |-> TRUE]
    /\ channel = [s \in Sessions |-> "none"]
    /\ feed = [s \in Sessions |-> <<>>]
    /\ flows = [s \in Sessions |-> NoFlow]
    /\ message = [s \in Sessions |-> <<>>]
    /\ attachment = [s \in Sessions |-> NoFile]
    /\ isSubmitting = [s \in Sessions |-> FALSE]
    /\ isUploading = [s \in Sessions |-> FALSE]
    /\ spc = [s \in Sessions |-> "idle"]
    /\ sendArgs = [s \in Sessions |-> NoArgs]
    /\ outcome = [s \in Sessions |-> "none"]
    /\ removed = [s \in Sessions |-> {}]

\* ------------------------------------------------- Chat: joining the room
\* handleJoin, or the saved name read on mount; the effect of line 44 then
\* runs initializeChat up to its first await.
Join(s, name) ==
    /\ pc[s] = "idle"
    /\ mounted[s]
    /\ username' = [username EXCEPT ![s] = name]
    /\ isLoading' = [isLoading EXCEPT ![s] = TRUE]
    /\ pc' = [pc EXCEPT ![s] = "find"]
    /\ UNCHANGED <<storeVars, messages, defaultRoom, snap, mounted, channel,
                   feed, flows, inputVars, histVars>>

\* The catch and finally blocks of initializeChat.
Fail(s) ==
    /\ pc' = [pc EXCEPT ![s] = "failed"]
    /\ isLoading' = Set(isLoading, s, FALSE)
    /\ UNCHANGED <<storeVars, username, messages, defaultRoom, snap, mounted,
                   channel, feed, flows, inputVars, histVars>>

\* A lookup that lost its .eq('slug', ...) filter.
AllRooms == rooms

\* The rooms the lookup of the default room returns.
FindRooms == RoomsBySlug(DEFAULT_ROOM_SLUG)

\* The lookup answers: with no room the creation is requested, otherwise
\* rooms[0] becomes the room and the history is requested.
FindRoom(s) ==
    /\ pc[s] = "find"
    /\ IF FindRooms = {}
       THEN /\ pc' = [pc EXCEPT ![s] = "create"]
            /\ UNCHANGED defaultRoom
       ELSE \E room \in FindRooms :
            /\ defaultRoom' = [defaultRoom EXCEPT ![s] = room]
            /\ pc' = [pc EXCEPT ![s] = "history"]
    /\ UNCHANGED <<storeVars, username, messages, isLoading, snap, mounted,
                   channel, feed, flows, inputVars, histVars>>

FindRoomError(s) == pc[s] = "find" /\ Fail(s)

\* The row the store makes of insert([{ name, slug }]).
NewRoom == [id |-> SetMax({r.id : r \in rooms}) + 1,
            name |-> DEFAULT_ROOM_NAME, slug |-> DEFAULT_ROOM_SLUG]

\* The store's answer to the insert: the table takes the row whatever rows
\* it holds.
RoomStoreCreate(row) == rooms \cup {row}

CreateRoom(s) ==
    /\ pc[s] = "create"
    /\ rooms' = RoomStoreCreate(NewRoom)
    /\ defaultRoom' = [defaultRoom EXCEPT ![s] = NewRoom]
    /\ pc' = [pc EXCEPT ![s] = "history"]
    /\ UNCHANGED <<db, usedIds, uploads, username, messages, isLoading, snap,
                   mounted, channel, feed, flows, inputVars, histVars>>

CreateRoomError(s) == pc[s] = "create" /\ Fail(s)

\* The local `room` of initializeChat; it is what setDefaultRoom was given.
RoomOf(s) == defaultRoom[s]

\* The history query is answered: messageData, ordered by created_at.
HistoryRead(s) ==
    /\ pc[s] = "history"
    /\ \E data \in OrderByCreatedAt(RoomMessages(RoomOf(s).id)) :
           snap' = [snap EXCEPT ![s] = data]
    /\ pc' = [pc EXCEPT ![s] = "loaded"]
    /\ UNCHANGED <<storeVars, username, messages, isLoading, defaultRoom,
                   mounted, channel, feed, flows, inputVars, histVars>>

\* A failed history after which the channel is subscribed all the same.
HistoryErrorSubscribes(s) ==
    /\ pc[s] = "history"
    /\ pc' = [pc EXCEPT ![s] = "failed"]
    /\ isLoading' = Set(isLoading, s, FALSE)
    /\ channel' = [channel EXCEPT ![s] = "open"]
    /\ UNCHANGED <<storeVars, username, messages, defaultRoom, snap, mounted,
                   feed, flows, inputVars, histVars>>

\* The history query fails: messageError is thrown.
HistoryError(s) == pc[s] = "history" /\ Fail(s)

\* A history that is loaded and never set.
SeedNothing(messageData) == <<>>

\* What the Store holds once the history is in.
Seed(messageData) == messageData

\* After the await of the history: setMessages(messageData), the channel is
\* subscribed, initializeChat returns its cleanup and finally clears isLoading.
Subscribe(s) ==
    /\ pc[s] = "loaded"
    /\ messages' = Set(messages, s, Seed(snap[s]))
    /\ snap' = [snap EXCEPT ![s] = <<>>]
    /\ channel' = [channel EXCEPT ![s] = "open"]
    /\ isLoading' = Set(isLoading, s, FALSE)
    /\ pc' = [pc EXCEPT ![s] = "done"]
    /\ UNCHANGED <<storeVars, username, defaultRoom, mounted, feed, flows,
                   inputVars, histVars>>

\* What the effect of line 44 hands React as its cleanup: the callback ends
\* with `void initializeChat()` and returns nothing, so leaving runs no code
\* of the component and the channel stays as it is.
EffectCleanup(s) == channel[s]

\* The Chat component is unmounted.
Leave(s) ==
    /\ mounted[s]
    /\ pc[s] # "idle"
    /\ mounted' = [mounted EXCEPT ![s] = FALSE]
    /\ channel' = [channel EXCEPT ![s] = EffectCleanup(s)]
    /\ UNCHANGED <<storeVars, username, messages, isLoading, defaultRoom, pc,
                   snap, feed, flows, inputVars, histVars>>

\* ------------------------------------------------------ the change feed
\* The channel hands its next event to the handler.
FeedDeliver(s) ==
    /\ feed[s] # <<>>
    /\ messages' = Set(messages, s, ApplyEvent(messages[s], Head(feed[s])))
    /\ feed' = [feed EXCEPT ![s] = Tail(@)]
    /\ UNCHANGED <<storeVars, username, isLoading, defaultRoom, pc, snap,
                   mounted, channel, flows, inputVars, histVars>>

\* The transport as the design takes it, at-least-once and possibly
\* reordered: it repeats the event it is about to hand over ...
FeedDuplicate(s) ==
    /\ feed[s] # <<>>
    /\ Len(messages[s]) + Len(feed[s]) < MaxFeed
    /\ feed' = [feed EXCEPT ![s] = <<Head(@)>> \o @]
    /\ UNCHANGED <<storeVars, username, messages, isLoading, defaultRoom, pc,
                   snap, mounted, channel, flows, inputVars, histVars>>

\* ... or hands over the second event before the first.
FeedReorder(s) ==
    /\ Len(feed[s]) >= 2
    /\ feed[s][1] # feed[s][2]
    /\ feed' = [feed EXCEPT ![s] = <<@[2], @[1]>> \o Tail(Tail(@))]
    /\ UNCHANGED <<storeVars, username, messages, isLoading, defaultRoom, pc,
                   snap, mounted, channel, flows, inputVars, histVars>>

\* ------------------------------------------------------- other clients
Row(id, roomId, sender, content, t, att) ==
    [id |-> id, room_id |-> roomId, sender_name |-> sender,
     content |-> content, created_at |-> t, att |-> att]

\* Another client's message is committed: the store assigns the id and the
\* created_at.
RemoteInsert(room, id, t, sender) ==
    /\ id \notin usedIds
    /\ LET m == Row(id, room.id, sender, <<"a">>, t, NoAtt)
       IN /\ db' = db \cup {m}
          /\ feed' = Publish(InsertEvent(m), room.id)
    /\ usedIds' = usedIds \cup {id}
    /\ UNCHANGED <<rooms, uploads, username, messages, isLoading, defaultRoom,
                   pc, snap, mounted, channel, flows, inputVars, histVars>>

\* Another client's delete is committed.
RemoteDelete(m) ==
    /\ m \in db
    /\ db' = db \ {m}
    /\ feed' = Publish(DeleteEvent(m), m.room_id)
    /\ UNCHANGED <<rooms, usedIds, uploads, username, messages, isLoading,
                   defaultRoom, pc, snap, mounted, channel, flows, inputVars,
                   histVars>>

\* ------------------------------------------------- Chat: deleteMessage
\* A ChatMessage that takes every message for the user's own.
IsAnyUser(msg, name) == TRUE

\* ChatMessage: isCurrentUser
IsCurrentUser(msg, name) == msg.sender_name = name

\* ChatMessage renders the delete button: {isCurrentUser && onDelete && ...};
\* the list is rendered only when isLoading is false.
DeleteControl(s, id) ==
    /\ mounted[s]
    /\ ~isLoading[s]
    /\ \E i \in DOMAIN messages[s] :
          messages[s][i].id = id /\ IsCurrentUser(messages[s][i], username[s])

SetFlow(s, f) == [flows EXCEPT ![s] = f]

\* onDelete(message.id): deleteMessage runs up to the await of the delete.
StartDelete(s, id) ==
    /\ DeleteControl(s, id)
    /\ flows[s].pc = "none"
    /\ flows' = SetFlow(s, [pc |-> "delete", id |-> id, data |-> <<>>])
    /\ outcome' = [outcome EXCEPT ![s] = "none"]
    /\ UNCHANGED <<storeVars, username, messages, isLoading, defaultRoom, pc,
                   snap, mounted, channel, feed, inputVars, removed>>

\* .from('public_messages').delete().eq('id', messageId) is committed; a
\* delete that matches no row is no error.
DeleteExec(s) ==
    /\ flows[s].pc = "delete"
    /\ LET gone == {m \in db : m.id = flows[s].id}
       IN /\ db' = db \ gone
          /\ IF gone = {} THEN feed' = feed
             ELSE \E m \in gone : feed' = Publish(DeleteEvent(m), m.room_id)
    /\ flows' = SetFlow(s, [flows[s] EXCEPT !.pc = "deleted"])
    /\ UNCHANGED <<rooms, usedIds, uploads, username, messages, isLoading,
                   defaultRoom, pc, snap, mounted, channel, inputVars, histVars>>

\* A deleteMessage that removes the message from the Store before it knows
\* how the request ended.
DeleteErrorRemoves(s) ==
    /\ flows[s].pc = "delete"
    /\ messages' = Set(messages, s, RemoveById(messages[s], flows[s].id))
    /\ flows' = SetFlow(s, NoFlow)
    /\ outcome' = [outcome EXCEPT ![s] = "delete failed"]
    /\ UNCHANGED <<storeVars, username, isLoading, defaultRoom, pc,
                   snap, mounted, channel, feed, inputVars, removed>>

\* The delete fails: the catch block reports it and deleteMessage ends.
DeleteError(s) ==
    /\ flows[s].pc = "delete"
    /\ flows' = SetFlow(s, NoFlow)
    /\ outcome' = [outcome EXCEPT ![s] = "delete failed"]
    /\ UNCHANGED <<storeVars, username, messages, isLoading, defaultRoom, pc,
                   snap, mounted, channel, feed, inputVars, removed>>

\* After the await of the delete: the local removal, then the re-fetch is
\* requested.
DeleteLocal(s) ==
    /\ flows[s].pc = "deleted"
    /\ messages' = Set(messages, s, RemoveById(messages[s], flows[s].id))
    /\ flows' = SetFlow(s, [flows[s] EXCEPT !.pc = "refetch"])
    /\ UNCHANGED <<storeVars, username, isLoading, defaultRoom, pc, snap,
                   mounted, channel, feed, inputVars, histVars>>

\* The re-fetch is answered: updatedMessages, ordered by created_at.
RefetchRead(s) ==
    /\ flows[s].pc = "refetch"
    /\ \E data \in OrderByCreatedAt(RoomMessages(defaultRoom[s].id)) :
           flows' = SetFlow(s, [flows[s] EXCEPT !.pc = "fetched",
                                                !.data = data])
    /\ UNCHANGED <<storeVars, username, messages, isLoading, defaultRoom, pc,
                   snap, mounted, channel, feed, inputVars, histVars>>

\* The re-fetch fails: refreshError is ignored and deleteMessage ends with
\* its success toast.
RefetchError(s) ==
    /\ flows[s].pc = "refetch"
    /\ flows' = SetFlow(s, NoFlow)
    /\ removed' = [removed EXCEPT ![s] = @ \cup {flows[s].id}]
    /\ UNCHANGED <<storeVars, username, messages, isLoading, defaultRoom, pc,
                   snap, mounted, channel, feed, inputVars, outcome>>

\* After the await of the re-fetch: setMessages(updatedMessages) and the
\* success toast.
RefetchApply(s) ==
    /\ flows[s].pc = "fetched"
    /\ messages' = Set(messages, s, flows[s].data)
    /\ flows' = SetFlow(s, NoFlow)
    /\ removed' = [removed EXCEPT ![s] = @ \cup {flows[s].id}]
    /\ UNCHANGED <<storeVars, username, isLoading, defaultRoom, pc, snap,
                   mounted, channel, feed, inputVars, outcome>>

\* --------------------------------------------- ChatInput: handleSubmit
\* <ChatInput disabled={isLoading || !defaultRoom} />
Disabled(s) == isLoading[s] \/ defaultRoom[s] = NoRoom

\* The controls of the form are disabled while a send is in flight.
Busy(s) == Disabled(s) \/ isSubmitting[s] \/ isUploading[s]

\* <Textarea onChange={(e) => setMessage(e.target.value)} />
TypeText(s, text) ==
    /\ mounted[s] /\ username[s] # ""
    /\ ~Busy(s)
    /\ message[s] # text
    /\ message' = [message EXCEPT ![s] = text]
    /\ outcome' = [outcome EXCEPT ![s] = "none"]
    /\ UNCHANGED <<storeVars, chatVars, attachment, isSubmitting, isUploading,
                   spc, sendArgs, removed>>

\* handleFileInputChange with a file of an allowed type and size.
SelectFile(s, file) ==
    /\ mounted[s] /\ username[s] # ""
    /\ ~Busy(s)
    /\ attachment[s] = NoFile
    /\ attachment' = [attachment EXCEPT ![s] = file]
    /\ outcome' = [outcome EXCEPT ![s] = "none"]
    /\ UNCHANGED <<storeVars, chatVars, message, isSubmitting, isUploading,
                   spc, sendArgs, removed>>

\* removeAttachment; its button is disabled while isSubmitting.
RemoveAttachment(s) ==
    /\ mounted[s]
    /\ attachment[s] # NoFile
    /\ ~isSubmitting[s]
    /\ attachment' = [attachment EXCEPT ![s] = NoFile]
    /\ outcome' = [outcome EXCEPT ![s] = "none"]
    /\ UNCHANGED <<storeVars, chatVars, message, isSubmitting, isUploading,
                   spc, sendArgs, removed>>

\* An append that forgot the separator.
AppendedNoSpace(prev, text) == prev \o text

\* prev + (prev ? ' ' : '') + transcribedText
Appended(prev, text) == prev \o (IF prev # <<>> THEN <<" ">> ELSE <<>>) \o text

\* What the transcriber returns: nothing, or a word.
VoiceTexts == {<<>>, <<"a">>}

\* processAudio: the recording is transcribed and
\* setMessage((prev) => prev + (prev ? ' ' : '') + transcribedText); the
\* microphone button is disabled by `disabled || isProcessing || isUploading`
\* only, so a transcription can land while the insert of a send is awaited.
\* When transcribedText is empty the draft is left alone ("No speech
\* detected").
Transcribe(s, text) ==
    /\ mounted[s] /\ username[s] # ""
    /\ ~Disabled(s) /\ ~isUploading[s]
    /\ IF text # <<>>
       THEN /\ Len(Appended(message[s], text)) <= MaxDraftLen
            /\ message' = [message EXCEPT ![s] = Appended(message[s], text)]
            /\ outcome' = [outcome EXCEPT ![s] = "transcribed"]
       ELSE /\ UNCHANGED message
            /\ outcome' = [outcome EXCEPT ![s] = "no speech"]
    /\ UNCHANGED <<storeVars, chatVars, attachment, isSubmitting, isUploading,
                   spc, sendArgs, removed>>

\* processAudio's catch block: the pipeline or the transcriber throws and the
\* failure is reported.
TranscribeError(s) ==
    /\ mounted[s] /\ username[s] # ""
    /\ ~Disabled(s) /\ ~isUploading[s]
    /\ outcome' = [outcome EXCEPT ![s] = "transcription failed"]
    /\ UNCHANGED <<storeVars, chatVars, inputVars, removed>>

\* handleSubmit: if ((!message.trim() && !attachment) || isSubmitting || disabled) return
SubmitRejected(s) ==
    \/ (Trim(message[s]) = <<>> /\ attachment[s] = NoFile)
    \/ isSubmitting[s]
    \/ Disabled(s)

\* sendMessage: if ((!text.trim() && !attachmentInfo) || !defaultRoom) return
SendRejected(s, text, att) ==
    \/ (Trim(text) = <<>> /\ att = NoAtt)
    \/ defaultRoom[s] = NoRoom

\* `${Date.now()}-${attachment.name}`
FileName(now, file) == <<now, file.name>>

\* onSendMessage(message.trim(), attachmentInfo) up to the await of the
\* insert; when sendMessage returns at its guard, handleSubmit goes on as
\* after a successful send: the draft is cleared.
CallSend(s, args) ==
    IF SendRejected(s, Trim(args.text), args.att)
    THEN /\ message' = [message EXCEPT ![s] = <<>>]
         /\ attachment' = [attachment EXCEPT ![s] = NoFile]
         /\ isSubmitting' = [isSubmitting EXCEPT ![s] = FALSE]
         /\ spc' = [spc EXCEPT ![s] = "idle"]
         /\ sendArgs' = [sendArgs EXCEPT ![s] = NoArgs]
         /\ outcome' = [outcome EXCEPT ![s] = "nothing sent"]
    ELSE /\ isSubmitting' = [isSubmitting EXCEPT ![s] = TRUE]
         /\ spc' = [spc EXCEPT ![s] = "insert"]
         /\ sendArgs' = [sendArgs EXCEPT ![s] = [args EXCEPT !.text = Trim(args.text)]]
         /\ outcome' = [outcome EXCEPT ![s] = "sending"]
         /\ UNCHANGED <<message, attachment>>

\* The form is submitted, or Enter is pressed in the textarea.
HandleSubmit(s) ==
    /\ mounted[s] /\ username[s] # ""
    /\ spc[s] = "idle" \/ SubmitRejected(s)
    /\ IF SubmitRejected(s)
       THEN /\ outcome' = [outcome EXCEPT ![s] =
                   IF Disabled(s) THEN "rejected: disabled"
                   ELSE IF isSubmitting[s] THEN "rejected: submitting"
                   ELSE "rejected: empty"]
            /\ UNCHANGED <<inputVars>>
       ELSE IF attachment[s] # NoFile
       THEN /\ isSubmitting' = [isSubmitting EXCEPT ![s] = TRUE]
            /\ isUploading' = [isUploading EXCEPT ![s] = TRUE]
            /\ spc' = [spc EXCEPT ![s] = "upload"]
            /\ sendArgs' = [sendArgs EXCEPT ![s] =
                   [text |-> message[s], file |-> attachment[s], att |-> NoAtt]]
            /\ outcome' = [outcome EXCEPT ![s] = "uploading"]
            /\ UNCHANGED <<message, attachment>>
       ELSE /\ CallSend(s, [text |-> message[s], file |-> NoFile, att |-> NoAtt])
            /\ UNCHANGED isUploading
    /\ UNCHANGED <<storeVars, chatVars, removed>>

\* An upload block without its finally: isUploading stays set.
UploadOkStuck(s, now) ==
    /\ spc[s] = "upload"
    /\ LET path == FileName(now, sendArgs[s].file)
       IN /\ path \notin uploads
          /\ uploads' = uploads \cup {path}
          /\ CallSend(s, [sendArgs[s] EXCEPT
                            !.att = [path |-> path, type |-> sendArgs[s].file.type]])
    /\ UNCHANGED isUploading
    /\ UNCHANGED <<rooms, db, usedIds, chatVars, removed>>

\* The upload is stored: attachmentInfo = { path: data.path, type:
\* attachment.type }, finally setIsUploading(false), then onSendMessage.
UploadOk(s, now) ==
    /\ spc[s] = "upload"
    /\ LET path == FileName(now, sendArgs[s].file)
       IN /\ path \notin uploads
          /\ uploads' = uploads \cup {path}
          /\ CallSend(s, [sendArgs[s] EXCEPT
                            !.att = [path |-> path, type |-> sendArgs[s].file.type]])
    /\ isUploading' = [isUploading EXCEPT ![s] = FALSE]
    /\ UNCHANGED <<rooms, db, usedIds, chatVars, removed>>

\* An upload catch block without its `return`: the send goes on without
\* attachmentInfo.
UploadErrorGoesOn(s) ==
    /\ spc[s] = "upload"
    /\ CallSend(s, sendArgs[s])
    /\ isUploading' = [isUploading EXCEPT ![s] = FALSE]
    /\ UNCHANGED <<storeVars, chatVars, removed>>

\* The upload fails: the toast, both flags cleared, return.
UploadError(s) ==
    /\ spc[s] = "upload"
    /\ isSubmitting' = [isSubmitting EXCEPT ![s] = FALSE]
    /\ isUploading' = [isUploading EXCEPT ![s] = FALSE]
    /\ spc' = [spc EXCEPT ![s] = "idle"]
    /\ sendArgs' = [sendArgs EXCEPT ![s] = NoArgs]
    /\ outcome' = [outcome EXCEPT ![s] = "upload failed"]
    /\ UNCHANGED <<storeVars, chatVars, message, attachment, removed>>

\* A row built without the attachment fields.
MessageDataNoAtt(s, id, t) ==
    Row(id, defaultRoom[s].id, username[s], sendArgs[s].text, t, NoAtt)

\* sendMessage: the row handed to insert([messageData]).
MessageData(s, id, t) ==
    Row(id, defaultRoom[s].id, username[s], sendArgs[s].text, t, sendArgs[s].att)

\* A sendMessage that also puts the row it sent in the Store.
InsertOkOptimistic(s, id, t) ==
    /\ spc[s] = "insert"
    /\ id \notin usedIds
    /\ db' = db \cup {MessageData(s, id, t)}
    /\ usedIds' = usedIds \cup {id}
    /\ feed' = Publish(InsertEvent(MessageData(s, id, t)), defaultRoom[s].id)
    /\ messages' = Set(messages, s, Append(messages[s], MessageData(s, id, t)))
    /\ message' = [message EXCEPT ![s] = <<>>]
    /\ attachment' = [attachment EXCEPT ![s] = NoFile]
    /\ isSubmitting' = [isSubmitting EXCEPT ![s] = FALSE]
    /\ spc' = [spc EXCEPT ![s] = "idle"]
    /\ sendArgs' = [sendArgs EXCEPT ![s] = NoArgs]
    /\ outcome' = [outcome EXCEPT ![s] = "sent"]
    /\ UNCHANGED <<rooms, uploads, username, isLoading, defaultRoom,
                   pc, snap, mounted, channel, flows, isUploading, removed>>

\* The insert is committed and sendMessage returns: setMessage(""),
\* setAttachment(null), finally setIsSubmitting(false).
InsertOk(s, id, t) ==
    /\ spc[s] = "insert"
    /\ id \notin usedIds
    /\ db' = db \cup {MessageData(s, id, t)}
    /\ usedIds' = usedIds \cup {id}
    /\ feed' = Publish(InsertEvent(MessageData(s, id, t)), defaultRoom[s].id)
    /\ message' = [message EXCEPT ![s] = <<>>]
    /\ attachment' = [attachment EXCEPT ![s] = NoFile]
    /\ isSubmitting' = [isSubmitting EXCEPT ![s] = FALSE]
    /\ spc' = [spc EXCEPT ![s] = "idle"]
    /\ sendArgs' = [sendArgs EXCEPT ![s] = NoArgs]
    /\ outcome' = [outcome EXCEPT ![s] = "sent"]
    /\ UNCHANGED <<rooms, uploads, username, messages, isLoading, defaultRoom,
                   pc, snap, mounted, channel, flows, isUploading, removed>>

\* A handleSubmit that clears the draft in its finally block.
InsertErrorClears(s) ==
    /\ spc[s] = "insert"
    /\ message' = [message EXCEPT ![s] = <<>>]
    /\ attachment' = [attachment EXCEPT ![s] = NoFile]
    /\ isSubmitting' = [isSubmitting EXCEPT ![s] = FALSE]
    /\ spc' = [spc EXCEPT ![s] = "idle"]
    /\ sendArgs' = [sendArgs EXCEPT ![s] = NoArgs]
    /\ outcome' = [outcome EXCEPT ![s] = "send failed"]
    /\ UNCHANGED <<storeVars, chatVars, isUploading, removed>>

\* The insert fails: sendMessage reports it and re-throws, handleSubmit logs
\* it, finally setIsSubmitting(false); the draft stays.
InsertError(s) ==
    /\ spc[s] = "insert"
    /\ isSubmitting' = [isSubmitting EXCEPT ![s] = FALSE]
    /\ spc' = [spc EXCEPT ![s] = "idle"]
    /\ sendArgs' = [sendArgs EXCEPT ![s] = NoArgs]
    /\ outcome' = [outcome EXCEPT ![s] = "send failed"]
    /\ UNCHANGED <<storeVars, chatVars, message, attachment, isUploading,
                   removed>>

\* ------------------------------------------------------- specifications
\* One joined session, the other clients of its room, and the feed.
Session == "s1"

Bootstrap(s) ==
    \/ Join(s, NameOf(s))
    \/ FindRoom(s)
    \/ FindRoomError(s)
    \/ CreateRoom(s)
    \/ CreateRoomError(s)
    \/ HistoryRead(s)
    \/ HistoryError(s)
    \/ Subscribe(s)

DeletePipeline(s) ==
    \/ \E id \in Ids : StartDelete(s, id)
    \/ DeleteExec(s)
    \/ DeleteError(s)
    \/ DeleteLocal(s)
    \/ RefetchRead(s)
    \/ RefetchError(s)
    \/ RefetchApply(s)

OtherClients ==
    \/ \E room \in FindRooms, id \in Ids, t \in Times, sender \in Users :
          RemoteInsert(room, id, t, sender)
    \/ \E m \in db : RemoteDelete(m)

Next ==
    \/ Bootstrap(Session)
    \/ FeedDeliver(Session)
    \/ DeletePipeline(Session)
    \/ OtherClients

Spec == Init /\ [][Next]_vars

\* The least id the backing store has not given out yet.
FreshIds == {id \in Ids : id \notin usedIds /\ \A j \in Ids : j \notin usedIds => id <= j}

\* The same, with the backing store giving out its ids in ascending order:
\* what deleteMessage does depends on no id being smaller than another.
NextDelete ==
    \/ Bootstrap(Session)
    \/ FeedDeliver(Session)
    \/ DeletePipeline(Session)
    \/ \E room \in FindRooms, id \in FreshIds, t \in Times, sender \in Users :
          RemoteInsert(room, id, t, sender)
    \/ \E m \in db : RemoteDelete(m)

SpecDelete == Init /\ [][NextDelete]_vars

\* The session leaves the room at any moment of its life.
NextLeave ==
    \/ Bootstrap(Session)
    \/ FeedDeliver(Session)
    \/ OtherClients
    \/ Leave(Session)

SpecLeave == Init /\ [][NextLeave]_vars

\* Two sessions join, and leave, at the same time.
NextResolve == \E s \in Sessions : Bootstrap(s) \/ Leave(s)

SpecResolve == Init /\ [][NextResolve]_vars

\* One joined session behind a transport that repeats and reorders events.
\* The other clients act before the history is read or after the channel is
\* subscribed, so that every change the history does not hold is an event.
NextFeed ==
    \/ Bootstrap(Session)
    \/ pc[Session] # "loaded" /\ OtherClients
    \/ FeedDeliver(Session)
    \/ FeedDuplicate(Session)
    \/ FeedReorder(Session)

SpecFeed == Init /\ [][NextFeed]_vars

\* One joined session composes and sends messages. Nothing here depends on
\* which id or created_at the store gives a message: it gives the least
\* unused id and the first timestamp, and the clock of Date.now() moves on
\* with every upload.

ChatInput(s) ==
    \/ \E text \in Drafts : TypeText(s, text)
    \/ \E file \in Files : SelectFile(s, file)
    \/ RemoveAttachment(s)
    \/ Transcribe(s, <<"a">>)
    \/ HandleSubmit(s)
    \/ \E now \in Times : Cardinality(uploads) = now - 1 /\ UploadOk(s, now)
    \/ UploadError(s)
    \/ \E id \in FreshIds : InsertOk(s, id, 1)
    \/ InsertError(s)

NextSend ==
    \/ Bootstrap(Session)
    \/ ChatInput(Session)
    \/ FeedDeliver(Session)

SpecSend == Init /\ [][NextSend]_vars

\* The voice input of one session: the draft is typed or dictated, the
\* transcriber returns a word or nothing or fails, and text-only sends go on
\* meanwhile.
VoiceInput(s) ==
    \/ \E text \in Drafts : TypeText(s, text)
    \/ \E text \in VoiceTexts : Transcribe(s, text)
    \/ TranscribeError(s)
    \/ HandleSubmit(s)
    \/ \E id \in FreshIds : InsertOk(s, id, 1)
    \/ InsertError(s)

NextVoice ==
    \/ Bootstrap(Session)
    \/ VoiceInput(Session)
    \/ FeedDeliver(Session)

SpecVoice == Init /\ [][NextVoice]_vars

\* ================================================================ claims
\* (created_at, id) in lexicographic order.
KeyLeq(a, b) ==
    \/ a.created_at < b.created_at
    \/ (a.created_at = b.created_at /\ a.id <= b.id)

Sorted(seq) == \A i, j \in DOMAIN seq : i < j => KeyLeq(seq[i], seq[j])

Unique(seq) == \A i, j \in DOMAIN seq : i # j => seq[i].id # seq[j].id

\* The step in which the handler is given the feed's next event.
Delivered(s, eventType) ==
    /\ feed[s] # <<>>
    /\ Head(feed[s]).eventType = eventType
    /\ feed'[s] = Tail(feed[s])

\* seq without its entries of that id, entry by entry.
RECURSIVE Without(_, _)
Without(seq, id) ==
    IF seq = <<>> THEN <<>>
    ELSE IF Head(seq).id = id THEN Without(Tail(seq), id)
    ELSE <<Head(seq)>> \o Without(Tail(seq), id)

\* A text of blanks only.
Blank(text) == \A i \in DOMAIN text : text[i] = " "

PublicRooms == {r \in rooms : r.slug = "public"}

\* C1: the Store of a joined session never holds two entries of one id.
C1_UniqueIds == \A s \in Sessions : mounted[s] => Unique(messages[s])

\* C2: the Store is sorted ascending by (created_at, id) in every state.
C2_StoreSorted == \A s \in Sessions : Sorted(messages[s])

\* C3: an INSERT event for an id the Store does not hold, applied to a sorted
\* Store without duplicates, makes it one entry longer and leaves it sorted by
\* (created_at, id).
C3_InsertKeepsOrder ==
    [][\A s \in Sessions :
         (/\ Delivered(s, "INSERT")
          /\ mounted[s]
          /\ Sorted(messages[s]) /\ Unique(messages[s])
          /\ ~HasId(messages[s], Head(feed[s]).new.id))
         => (/\ Len(messages'[s]) = Len(messages[s]) + 1
             /\ Sorted(messages'[s]))]_vars

\* C4: entries of equal created_at stand in the Store in ascending id order.
C4_TiesById ==
    \A s \in Sessions : \A i, j \in DOMAIN messages[s] :
        (i < j /\ messages[s][i].created_at = messages[s][j].created_at)
        => messages[s][i].id <= messages[s][j].id

\* The step in which a delete of `id` is applied to the Store of s: the
\* handler is given a DELETE event, or deleteMessage does its local removal.
DeleteApplied(s, id) ==
    \/ Delivered(s, "DELETE") /\ Head(feed[s]).old.id = id
    \/ flows[s].pc = "deleted" /\ flows'[s].pc = "refetch" /\ flows[s].id = id

\* C5: a delete applied to the Store removes the entries of that id and
\* nothing else, leaves the Store as it is when the id is absent, and applied
\* a second time changes nothing.
C5_DeleteRemovesOnlyThatId ==
    /\ [][\A s \in Sessions : \A id \in Ids :
            (DeleteApplied(s, id) /\ mounted[s])
            => (/\ ~HasId(messages'[s], id)
                /\ messages'[s] = Without(messages[s], id)
                /\ (~HasId(messages[s], id) => messages'[s] = messages[s]))]_vars
    /\ [](\A s \in Sessions : \A id \in Ids :
            RemoveById(RemoveById(messages[s], id), id) = RemoveById(messages[s], id))

\* C5 happens: deleteMessage has done its local removal, the DELETE event of
\* the same id has been delivered too, and other entries are still there.
C5_Witness ==
    \E s \in Sessions :
        /\ flows[s].pc = "refetch"
        /\ channel[s] = "open" /\ feed[s] = <<>>
        /\ flows[s].id \notin {m.id : m \in db}
        /\ messages[s] # <<>>
        /\ ~HasId(messages[s], flows[s].id)

\* C6: a send of a blank text without attachment is rejected before any
\* request: with no send in flight, handleSubmit of such a draft stays idle
\* and nothing is uploaded or inserted; and no message of blank content
\* without attachment is ever handed to the store.
C6_EmptySendRejected ==
    /\ [][\A s \in Sessions :
            (/\ \A o \in Sessions : spc[o] = "idle"
             /\ Blank(message[s]) /\ attachment[s] = NoFile)
            => (spc'[s] = "idle" /\ ~isSubmitting'[s]
                /\ uploads' = uploads /\ db' = db)]_vars
    /\ [](\A m \in db : ~(Blank(m.content) /\ m.att = NoAtt))
    /\ [](\A s \in Sessions :
            spc[s] = "insert" => ~(Blank(sendArgs[s].text) /\ sendArgs[s].att = NoAtt))

\* C6 happens: with the input enabled, handleSubmit has turned down a draft
\* of blanks.
C6_Witness ==
    \E s \in Sessions :
        /\ outcome[s] = "rejected: empty"
        /\ message[s] # <<>> /\ Blank(message[s])
        /\ attachment[s] = NoFile
        /\ db = {LobbyMsg}

\* C7: once deleteMessage(id) has run to its end, the Store never holds id.
C7_RemovedStaysOut ==
    \A s \in Sessions :
        mounted[s] => \A id \in removed[s] : ~HasId(messages[s], id)

\* C8: at most one room per slug.
C8_OneRoomPerSlug == \A r1, r2 \in rooms : r1.slug = r2.slug => r1 = r2

\* C9: a resolve whose lookup is answered when no room of slug "public"
\* exists goes on to create one; a resolve whose lookup is answered when the
\* room exists creates nothing and takes a room of that slug; a resolve that
\* creates adds exactly one room of that slug and takes it; nothing else adds
\* a room.
C9_ResolveIdempotent ==
    [][\A s \in Sessions :
         /\ (pc[s] = "find" /\ pc'[s] \notin {"find", "failed"} /\ PublicRooms = {})
            => (rooms' = rooms /\ pc'[s] = "create")
         /\ (pc[s] = "find" /\ pc'[s] \notin {"find", "failed"} /\ PublicRooms # {})
            => (/\ rooms' = rooms
                /\ pc'[s] = "history"
                /\ defaultRoom'[s] \in PublicRooms)
         /\ (pc[s] = "create" /\ pc'[s] = "history")
            => (/\ Cardinality(rooms') = Cardinality(rooms) + 1
                /\ defaultRoom'[s] \in rooms' \ rooms
                /\ defaultRoom'[s].slug = "public")
         /\ (pc[s] = pc'[s] /\ \A o \in Sessions : pc[o] = "create" => pc'[o] = "create")
            => rooms' = rooms]_vars

\* C9 happens: one session created the room, the other resolved it afterwards
\* and holds the same room; the room exists once.
C9_Witness ==
    /\ \A s \in Sessions : pc[s] = "done" /\ defaultRoom[s] \in PublicRooms
    /\ Cardinality(PublicRooms) = 1

\* C10: after the session has left, its subscription is released: no channel
\* it opened is still open.
C10_ChannelReleased ==
    \A s \in Sessions :
        (~mounted[s] /\ pc[s] \in {"done", "failed"}) => channel[s] # "open"

\* ----------------------------------------------------------------------
IdSet(seq) == {seq[i].id : i \in DOMAIN seq}

\* The Store after the handler has been given every event of `events`.
RECURSIVE Drain(_, _)
Drain(prev, events) ==
    IF events = <<>> THEN prev
    ELSE Drain(ApplyEvent(prev, Head(events)), Tail(events))

\* The session is joined and at rest: the bootstrap succeeded, no event is
\* pending and no deleteMessage is in flight.
AtRest(s) ==
    /\ mounted[s] /\ pc[s] = "done"
    /\ feed[s] = <<>>
    /\ flows[s].pc = "none"

\* The messages of the session's room in the backing store.
Canonical(s) == {m.id : m \in RoomMessages(defaultRoom[s].id)}

\* C11: the mirror converges: whenever a session whose bootstrap succeeded
\* is at rest (every committed change has been handed to it), its Store
\* holds exactly the messages of its room in the backing store.
C11_MirrorConverges ==
    \A s \in Sessions : AtRest(s) => IdSet(messages[s]) = Canonical(s)

\* C12: behind a transport that repeats and reorders events the session at
\* rest holds what delivery of each event once, in commit order, leaves: each
\* message of the room in the backing store once, and no deleted message.
C12_DeliverySafe ==
    \A s \in Sessions :
        AtRest(s) => (Unique(messages[s]) /\ IdSet(messages[s]) = Canonical(s))

\* C13: at the step that applies the re-fetch of deleteMessage, the Store it
\* sets, once the events still pending have been handed to the handler,
\* holds every message of the room in the backing store once and no other.
C13_RefetchConverges ==
    [][\A s \in Sessions :
         (flows[s].pc = "fetched" /\ flows'[s].pc = "none" /\ mounted[s])
         => LET final == Drain(messages'[s], feed'[s])
            IN /\ Unique(final)
               /\ IdSet(final) = Canonical(s)]_vars

\* C14: the history is in the Store before any event is applied: the step
\* that opens the channel sets the Store to the history just loaded, no
\* channel is open and no event is pending before that step, and until then
\* nothing else changes the Store.
C14_HistoryBeforeFeed ==
    /\ [][\A s \in Sessions :
            /\ (channel[s] = "none" /\ channel'[s] = "open" /\ mounted[s])
               => (pc[s] = "loaded" /\ messages'[s] = snap[s])
            /\ (pc[s] # "done" /\ messages'[s] # messages[s])
               => (pc[s] = "loaded" /\ pc'[s] = "done")]_vars
    /\ [](\A s \in Sessions :
            pc[s] # "done" => (channel[s] = "none" /\ feed[s] = <<>>))

\* C14 happens: a history of one message was set, and an event delivered
\* afterwards put a message of an earlier created_at behind it.
C14_Witness ==
    \E s \in Sessions :
        /\ pc[s] = "done" /\ channel[s] = "open" /\ feed[s] = <<>>
        /\ removed[s] = {} /\ flows[s].pc = "none"
        /\ Len(messages[s]) = 2
        /\ messages[s][1].created_at > messages[s][2].created_at

\* A step of handleSubmit or of the sendMessage it calls.
SendStep(s) ==
    \/ spc'[s] # spc[s]
    \/ /\ outcome'[s] # outcome[s]
       /\ outcome'[s] \in {"rejected: disabled", "rejected: submitting",
                           "rejected: empty"}

\* The entries of id in seq.
Count(seq, id) == Cardinality({i \in DOMAIN seq : seq[i].id = id})

\* C15: no step of the send pipeline changes the Store, whether the send
\* succeeds or fails; the Store changes only when the history is set or an
\* event is handled; the row a send commits is published as one INSERT
\* event, and once that event is handled the Store holds the row once.
C15_SendLeavesStore ==
    /\ [][\A s \in Sessions :
            /\ SendStep(s) => messages'[s] = messages[s]
            /\ messages'[s] # messages[s]
               => (/\ spc'[s] = spc[s] /\ db' = db
                   /\ \/ pc[s] = "loaded" /\ pc'[s] = "done"
                      \/ feed[s] # <<>> /\ feed'[s] = Tail(feed[s]))
            /\ (spc[s] = "insert" /\ db' # db /\ channel[s] = "open")
               => \E m \in db' \ db : feed'[s] = Append(feed[s], InsertEvent(m))]_vars
    /\ [](\A s \in Sessions : \A m \in RoomMessages(defaultRoom[s].id) :
            (channel[s] = "open" /\ mounted[s] /\ feed[s] = <<>>)
            => Count(messages[s], m.id) = 1)

\* C15 happens: a send succeeded, its event has been handled and the Store
\* holds the message.
C15_Witness ==
    \E s \in Sessions :
        /\ outcome[s] = "sent" /\ spc[s] = "idle"
        /\ channel[s] = "open" /\ feed[s] = <<>>
        /\ Len(messages[s]) = 1
        /\ messages[s][1].sender_name = username[s]
        /\ messages[s][1] \in db

\* The draft can be sent as it stands.
Sendable(s) == Trim(message[s]) # <<>> \/ attachment[s] # NoFile

\* C16: handleSubmit clears the draft only at the step that commits the
\* message; every other step of it, a failed upload and a failed insert
\* included, leaves the text and the attachment as they are, and after a
\* failure the draft is still there to be sent again.
C16_DraftKeptOnFailure ==
    /\ [][\A s \in Sessions :
            SendStep(s)
            => IF spc[s] = "insert" /\ db' # db
               THEN message'[s] = <<>> /\ attachment'[s] = NoFile
               ELSE message'[s] = message[s] /\ attachment'[s] = attachment[s]]_vars
    /\ [](\A s \in Sessions :
            /\ outcome[s] \in {"upload failed", "send failed"} => Sendable(s)
            /\ outcome[s] = "upload failed" => attachment[s] # NoFile)

\* C16 happens: the upload succeeded, the insert failed, and the text and
\* the attachment are still in the draft.
C16_Witness ==
    \E s \in Sessions :
        /\ outcome[s] = "send failed" /\ spc[s] = "idle"
        /\ uploads # {}
        /\ Trim(message[s]) # <<>> /\ attachment[s] # NoFile
        /\ db = {LobbyMsg}

\* C17: a failed upload ends the send: handleSubmit is back at rest with
\* nothing inserted and nothing published; and a send with an attachment
\* reaches the insert only with the path of a stored upload, as does every
\* row that names an attachment.
C17_UploadFailureAborts ==
    /\ [][\A s \in Sessions :
            (spc[s] = "upload" /\ spc'[s] # "upload" /\ uploads' = uploads)
            => (/\ spc'[s] = "idle"
                /\ ~isSubmitting'[s] /\ ~isUploading'[s]
                /\ sendArgs'[s] = NoArgs
                /\ db' = db /\ usedIds' = usedIds /\ feed' = feed)]_vars
    /\ [](\A s \in Sessions :
            (spc[s] = "insert" /\ sendArgs[s].file # NoFile)
            => sendArgs[s].att.path \in uploads)
    /\ [](\A m \in db : m.att # NoAtt => m.att.path \in uploads)

\* C17 happens: the upload of a draft with text and attachment failed and
\* nothing was stored or inserted.
C17_Witness ==
    \E s \in Sessions :
        /\ outcome[s] = "upload failed" /\ spc[s] = "idle"
        /\ Trim(message[s]) # <<>> /\ attachment[s] # NoFile
        /\ uploads = {} /\ db = {LobbyMsg}

\* C18: the row a send commits carries the id of the resolved room and the
\* session's username; it names an attachment exactly when the draft had
\* one, with the path the upload of this send stored and the type of the
\* file; the upload step hands on the path it stored and the file's type.
C18_RecordFields ==
    [][\A s \in Sessions :
         /\ (spc[s] = "insert" /\ db' # db)
            => \E m \in db' \ db :
                 /\ db' = db \cup {m}
                 /\ defaultRoom[s] \in RoomsBySlug(DEFAULT_ROOM_SLUG)
                 /\ m.room_id = defaultRoom[s].id
                 /\ m.sender_name = username[s] /\ username[s] = NameOf(s)
                 /\ IF attachment[s] = NoFile
                    THEN m.att = NoAtt
                    ELSE /\ m.att = sendArgs[s].att
                         /\ m.att.path \in uploads
                         /\ m.att.path[2] = attachment[s].name
                         /\ m.att.type = attachment[s].type
         /\ (spc[s] = "upload" /\ spc'[s] = "insert")
            => (/\ uploads' = uploads \cup {sendArgs'[s].att.path}
                /\ sendArgs'[s].att.path \notin uploads
                /\ sendArgs'[s].att.type = attachment[s].type)]_vars

\* C18 happens: a send with the attachment file.png was committed and its
\* row names the stored path and the type image/png.
C18_Witness ==
    \E s \in Sessions :
        /\ outcome[s] = "sent"
        /\ \E m \in db :
              /\ m.sender_name = username[s]
              /\ m.room_id = defaultRoom[s].id
              /\ m.att.path \in uploads
              /\ m.att.type = "image/png"

\* C19: a failed bootstrap is final: initializeChat is not run again, no
\* channel is opened, and the send input is blocked from then on, so that
\* the session sends nothing.
C19_BootstrapFailureFatal ==
    \A s \in Sessions :
        pc[s] = "failed"
        => (/\ channel[s] = "none"
            /\ Disabled(s)
            /\ spc[s] = "idle")

\* The bootstrap of s failed at the history load: the room was resolved.
HistoryFailed(s) == pc[s] = "failed" /\ defaultRoom[s] # NoRoom

\* C20: after a failed history load the Store is empty and stays empty: the
\* load is not run again, no channel is opened and no event is pending or
\* handled, whatever the session sends afterwards.
C20_HistoryFailureLeavesEmpty ==
    /\ [](\A s \in Sessions :
            HistoryFailed(s)
            => (/\ messages[s] = <<>> /\ snap[s] = <<>>
                /\ channel[s] = "none" /\ feed[s] = <<>>
                /\ ~isLoading[s]))
    /\ [][\A s \in Sessions :
            /\ (pc[s] = "history" /\ pc'[s] = "failed") => messages'[s] = <<>>
            /\ pc[s] = "failed" => (pc'[s] = "failed" /\ messages'[s] = <<>>)]_vars

\* C20 happens: the history load failed, the session has since sent a
\* message that the backing store holds, and its Store is empty.
C20_Witness ==
    \E s \in Sessions :
        /\ HistoryFailed(s)
        /\ outcome[s] = "sent"
        /\ RoomMessages(defaultRoom[s].id) # {}
        /\ messages[s] = <<>>

\* The entries of the Store of s that its user did not send.
Foreign(s) == {i \in DOMAIN messages[s] : messages[s][i].sender_name # username[s]}

\* C21: deleteMessage starts only for a message the Store shows with the
\* session's own username as sender, and no message of another sender has a
\* delete control.
C21_DeleteOnlyOwn ==
    /\ [][\A s \in Sessions :
            (flows[s].pc = "none" /\ flows'[s].pc = "delete")
            => (/\ \E i \in DOMAIN messages[s] :
                      /\ messages[s][i].id = flows'[s].id
                      /\ messages[s][i].sender_name = username[s]
                /\ \A i \in Foreign(s) : messages[s][i].id # flows'[s].id)]_vars
    /\ [](\A s \in Sessions : \A i \in Foreign(s) :
            ~DeleteControl(s, messages[s][i].id))

\* C21 happens: the Store shows a message of the user and one of somebody
\* else, and deleteMessage runs for the user's own.
C21_Witness ==
    \E s \in Sessions :
        /\ flows[s].pc = "delete"
        /\ Foreign(s) # {}
        /\ \E i \in DOMAIN messages[s] :
              messages[s][i].id = flows[s].id /\ messages[s][i].sender_name = username[s]

\* C24: a delete request that fails ends deleteMessage at once: no local
\* removal and no re-fetch follow, the Store, the backing store and the
\* channel are as before, and the id does not count as removed; the call
\* itself changes nothing before the request is answered; and only a
\* request that was carried out goes on to the local removal.
C24_DeleteFailureKeepsStore ==
    [][\A s \in Sessions :
         /\ (flows[s].pc = "delete" /\ flows'[s].pc = "none")
            => (/\ messages'[s] = messages[s]
                /\ db' = db /\ feed' = feed
                /\ removed'[s] = removed[s]
                /\ outcome'[s] = "delete failed")
         /\ (flows[s].pc = "none" /\ flows'[s].pc = "delete")
            => (messages'[s] = messages[s] /\ db' = db)
         /\ (flows[s].pc = "delete" /\ flows'[s].pc # "delete")
            => (\/ flows'[s].pc = "none"
                \/ /\ flows'[s].pc = "deleted"
                   /\ messages'[s] = messages[s]
                   /\ \A m \in db' : m.id # flows[s].id)]_vars

\* C24 happens: an earlier deleteMessage removed a message, a later one
\* failed, and the Store still holds the message it was called for and not
\* the one removed before.
C24_Witness ==
    \E s \in Sessions :
        /\ outcome[s] = "delete failed" /\ flows[s].pc = "none"
        /\ removed[s] # {}
        /\ messages[s] # <<>>
        /\ \A id \in removed[s] : ~HasId(messages[s], id)
        /\ \A i \in DOMAIN messages[s] : messages[s][i].sender_name = username[s]

\* A step of processAudio that ends a transcription.
VoiceStep(s) ==
    /\ outcome'[s] \in {"transcribed", "no speech", "transcription failed"}
    /\ spc'[s] = spc[s]
    /\ (outcome'[s] # outcome[s] \/ message'[s] # message[s])

\* C22: a transcription that returns a text puts it at the end of the draft,
\* after one blank when the draft was not empty and alone when it was; one
\* that returns nothing or fails leaves the draft as it is; none touches the
\* attachment, the Store or the backing store.
C22_TranscriptionAppends ==
    [][\A s \in Sessions :
         VoiceStep(s)
         => (/\ outcome'[s] = "transcribed"
                => \E text \in VoiceTexts \ {<<>>} :
                     message'[s] = IF message[s] = <<>> THEN text
                                   ELSE message[s] \o <<" ">> \o text
             /\ outcome'[s] \in {"no speech", "transcription failed"}
                => message'[s] = message[s]
             /\ attachment'[s] = attachment[s]
             /\ messages'[s] = messages[s]
             /\ db' = db /\ feed' = feed)]_vars

\* C22 happens: a word was transcribed onto a draft that held a word.
C22_Witness ==
    \E s \in Sessions :
        /\ outcome[s] = "transcribed"
        /\ message[s] = <<"a", " ", "a">>

\* C23: whenever a successful submission clears the draft, the draft at that
\* moment is the text that was submitted, so that nothing a transcription
\* appended while the send was in flight is thrown away.
C23_ClearedDraftWasSent ==
    [][\A s \in Sessions :
         (spc[s] = "insert" /\ outcome'[s] = "sent" /\ message'[s] = <<>>)
         => Trim(message[s]) = Trim(sendArgs[s].text)]_vars

\* C25: an input has at most one send in flight and its flags never stay
\* set: isSubmitting is true exactly while a handleSubmit is between its guard
\* and its exit, isUploading exactly while the upload is awaited, so that both
\* are false after every exit (rejection, upload failure, send failure,
\* success); and a handleSubmit called while isSubmitting is true changes
\* nothing of the input, the Store or the backing store.
C25_OneSendInFlight ==
    /\ [](\A s \in Sessions :
            /\ isSubmitting[s] <=> spc[s] # "idle"
            /\ isUploading[s] <=> spc[s] = "upload"
            /\ spc[s] = "idle" => sendArgs[s] = NoArgs)
    /\ [][\A s \in Sessions :
            (outcome'[s] = "rejected: submitting" /\ outcome[s] # outcome'[s])
            => (/\ isSubmitting[s]
                /\ UNCHANGED <<message, attachment, isSubmitting, isUploading,
                               spc, sendArgs>>
                /\ UNCHANGED <<db, uploads, messages, feed>>)]_vars
    /\ [][\A s \in Sessions :
            (spc[s] # "idle" /\ spc'[s] # spc[s])
            => (\/ spc'[s] = "idle"
                \/ spc[s] = "upload" /\ spc'[s] = "insert")]_vars

\* C25 happens: handleSubmit was called while a send awaited its insert, and
\* the send is still the only one in flight.
C25_Witness ==
    \E s \in Sessions :
        /\ outcome[s] = "rejected: submitting"
        /\ spc[s] = "insert"
        /\ sendArgs[s].att # NoAtt

====
